---- MODULE Spec2Model ----
(***************************************************************************)
(* Model of the field-aware scoring engine of Assigments/A2_2/A2_2.py      *)
(* (DocumentCollection, Scorer and its five ranking models) and of         *)
(* get_unique_elements of Assigments/A0/A0.py.                             *)
(*                                                                         *)
(* Python floats are modelled as exact reals of the form                   *)
(*     r + SUM_p c_p * ln(p)      (r, c_p rational, p prime),              *)
(* which is closed under every operation the scorers perform and in which  *)
(* equality is decidable (1 and the logarithms of the primes are linearly  *)
(* independent over the rationals).  A raised Python exception is modelled *)
(* by the name of its class.                                               *)
(***************************************************************************)
EXTENDS Integers, Sequences, FiniteSets, TLC

\* ------------------------------------------------------------------------
\* Bounds of the model
\* ------------------------------------------------------------------------
\* the number of term occurrences in a collection, the length of a query, the
\* length of the list and the threshold given to get_unique_elements
MaxTokens == 2
MaxQuery == 2
MaxLst == 4
MaxN == 3

Terms == {"a", "b"}
DocIds == <<"d1", "d2">>
Fields == {"title", "body"}
Elems == {1, 2, 3}

\* ------------------------------------------------------------------------
\* Exact rational arithmetic: <<n, d>> with d > 0 and gcd(n, d) = 1
\* ------------------------------------------------------------------------
Abs(x) == IF x < 0 THEN -x ELSE x

RECURSIVE Gcd(_, _)
Gcd(x, y) == IF y = 0 THEN x ELSE Gcd(y, x % y)

Rat(n, d) ==
    LET s == IF d < 0 THEN -1 ELSE 1
        g == Gcd(Abs(n), Abs(d))
    IN  <<(s * n) \div g, (s * d) \div g>>

RInt(k) == <<k, 1>>
RZero == RInt(0)
ROne == RInt(1)
RAdd(x, y) == Rat(x[1] * y[2] + y[1] * x[2], x[2] * y[2])
RSub(x, y) == Rat(x[1] * y[2] - y[1] * x[2], x[2] * y[2])
RMul(x, y) == Rat(x[1] * y[1], x[2] * y[2])
\* x / y for y # 0 (the callers raise ZeroDivisionError before dividing by 0)
RDiv(x, y) == Rat(x[1] * y[2], x[2] * y[1])

\* ------------------------------------------------------------------------
\* Reals r + SUM_p c_p ln(p): [rat |-> r, log |-> [p \in primes |-> c_p # 0]]
\* ------------------------------------------------------------------------
RECURSIVE Val(_, _)
\* the exponent of the prime p in n >= 1
Val(p, n) == IF n % p = 0 THEN 1 + Val(p, n \div p) ELSE 0

\* the primes dividing n >= 1, by trial division from p
RECURSIVE PrimesFrom(_, _)
PrimesFrom(n, p) ==
    IF n = 1 THEN {}
    ELSE IF p * p > n THEN {n}
    ELSE IF n % p = 0 THEN {p} \cup PrimesFrom(n \div p, p)
    ELSE PrimesFrom(n, p + 1)

PrimesOf(n) == PrimesFrom(n, 2)

Num(r) == [rat |-> r, log |-> <<>>]
NumZero == Num(RZero)

\* math.log(x) for a rational x > 0
Ln(x) ==
    LET ps == PrimesOf(x[1]) \cup PrimesOf(x[2])
    IN  [rat |-> RZero, log |-> [p \in ps |-> RInt(Val(p, x[1]) - Val(p, x[2]))]]

NAdd(u, v) ==
    LET du == DOMAIN u.log
        dv == DOMAIN v.log
        c(p) == RAdd(IF p \in du THEN u.log[p] ELSE RZero,
                     IF p \in dv THEN v.log[p] ELSE RZero)
        ps == {p \in du \cup dv : c(p) # RZero}
    IN  [rat |-> RAdd(u.rat, v.rat), log |-> [p \in ps |-> c(p)]]

\* q * u for a rational q
NScale(q, u) ==
    IF q = RZero THEN NumZero
    ELSE [rat |-> RMul(q, u.rat), log |-> [p \in DOMAIN u.log |-> RMul(q, u.log[p])]]

\* ------------------------------------------------------------------------
\* Python values
\* ------------------------------------------------------------------------
\* Optional arguments and attributes: None, or a present value
None == <<>>
Some(x) == <<x>>
Get(o) == o[1]

\* The outcome of a call: a returned value, or the class of the exception raised
Ok(v) == [exc |-> "none", val |-> v]
Raise(e) == [exc |-> e, val |-> <<>>]

\* list.count(t)
RECURSIVE Count(_, _)
Count(s, t) ==
    IF s = <<>> THEN 0 ELSE (IF Head(s) = t THEN 1 ELSE 0) + Count(Tail(s), t)

\* t in list
Contains(s, t) == \E i \in 1..Len(s) : s[i] = t

\* A collection is the sequence of its documents in insertion order; the document
\* at position i has the identifier DocIds[i].  A document maps some of the field
\* names to term sequences.
DocId(i) == DocIds[i]

\* Parameters of the ranking models (the defaults of the constructors)
DefaultB == <<3, 4>>
DefaultK1 == <<6, 5>>
DefaultSmoothing == <<1, 10>>
DefaultFields == <<"title", "body">>
DefaultFieldWeights == <<(<<1, 5>>), (<<4, 5>>)>>
DefaultBi == <<DefaultB, DefaultB>>

\* ------------------------------------------------------------------------
\* DocumentCollection
\* ------------------------------------------------------------------------
RECURSIVE SumLen(_, _)
SumLen(coll, field) ==
    IF coll = <<>> THEN 0 ELSE Len(Head(coll)[field]) + SumLen(Tail(coll), field)

\* sum(len(fields[field]) for fields in self.values()): fields[field] raises
\* KeyError at the first document without the field
total_field_length(coll, field) ==
    IF \E i \in 1..Len(coll) : field \notin DOMAIN coll[i]
    THEN Raise("KeyError")
    ELSE Ok(SumLen(coll, field))

\* self.total_field_length(field) / len(self)
avg_field_length(coll, field) ==
    LET t == total_field_length(coll, field)
    IN  IF t.exc # "none" THEN t
        ELSE IF Len(coll) = 0 THEN Raise("ZeroDivisionError")
        ELSE Ok(Rat(t.val, Len(coll)))

\* {doc_id: doc[field] for (doc_id, doc) in self.items() if field in doc}
get_field_documents(coll, field) ==
    LET ids == {i \in 1..Len(coll) : field \in DOMAIN coll[i]}
    IN  Ok([d \in {DocId(i) : i \in ids} |->
              LET i == CHOOSE j \in ids : DocId(j) = d IN coll[i][field]])

\* ------------------------------------------------------------------------
\* Scorer
\* ------------------------------------------------------------------------
\* not field, not fields: None, "" and [] are falsy
FalsyStr(o) == o = None \/ Get(o) = ""
FalsyList(o) == o = None \/ Get(o) = <<>>

\* The slip of requiring both: not (field and fields)
Scorer_init_Both(field, fields) ==
    IF FalsyStr(field) \/ FalsyList(fields)
    THEN Raise("ValueError")
    ELSE Ok([field |-> field, fields |-> fields])

\* Scorer.__init__: the attributes set, or ValueError
Scorer_init(field, fields) ==
    IF FalsyStr(field) /\ FalsyList(fields)
    THEN Raise("ValueError")
    ELSE Ok([field |-> field, fields |-> fields])

\* The slip of assigning instead of adding: self.scores[doc_id] = x
AddScore_Assign(scores, id, x) ==
    [d \in DOMAIN scores \cup {id} |-> IF d = id THEN x ELSE scores[d]]

\* self.scores[doc_id] += x on a defaultdict(float)
AddScore(scores, id, x) ==
    [d \in DOMAIN scores \cup {id} |->
        IF d = id THEN NAdd(IF id \in DOMAIN scores THEN scores[id] ELSE NumZero, x)
        ELSE scores[d]]

\* doc[self.field] is defined
HasField(doc, field) == field # None /\ Get(field) \in DOMAIN doc

\* Counter(query_terms).items(): the distinct terms in first-occurrence order,
\* each with its number of occurrences
RECURSIVE Distinct(_)
Distinct(q) ==
    IF q = <<>> THEN <<>>
    ELSE LET r == Distinct(SubSeq(q, 1, Len(q) - 1))
             t == q[Len(q)]
         IN  IF Contains(r, t) THEN r ELSE Append(r, t)

Counter(q) == [i \in 1..Len(Distinct(q)) |->
                  <<Distinct(q)[i], Count(q, Distinct(q)[i])>>]

\* An accumulator state: self.scores, and the exception that ended the call
Acc(scores) == [exc |-> "none", scores |-> scores]
Fail(acc, e) == [exc |-> e, scores |-> acc.scores]

\* SimpleScorer.score_term, documents i.. of the collection
RECURSIVE SimpleLoop(_, _, _, _, _, _)
SimpleLoop(sc, coll, acc, term, query_freq, i) ==
    IF i > Len(coll) THEN acc
    ELSE LET doc == coll[i] IN
         IF ~HasField(doc, sc.field) THEN Fail(acc, "KeyError")
         ELSE LET f == doc[Get(sc.field)]
                  next == IF Contains(f, term)
                          THEN Acc(AddScore(acc.scores, DocId(i),
                                            Num(RInt(Count(f, term) * query_freq))))
                          ELSE acc
              IN  SimpleLoop(sc, coll, next, term, query_freq, i + 1)

\* The slip of leaving the query frequency out of the product
SimpleScorer_score_term_NoQueryFreq(sc, coll, index, acc, term, query_freq) ==
    SimpleLoop(sc, coll, acc, term, 1, 1)

SimpleScorer_score_term(sc, coll, index, acc, term, query_freq) ==
    SimpleLoop(sc, coll, acc, term, query_freq, 1)

\* math.log(len(self.collection) / len(self.index[field][term]))
Idf(coll, index, field, term) ==
    IF field \notin DOMAIN index \/ term \notin DOMAIN index[field]
    THEN Raise("KeyError")
    ELSE LET df == Cardinality(index[field][term]) IN
         IF df = 0 THEN Raise("ZeroDivisionError")
         ELSE IF Len(coll) = 0 THEN Raise("ValueError")
         ELSE Ok(Ln(Rat(Len(coll), df)))

\* The BM25 contribution of one document that has the term in the field
BM25Doc(sc, coll, index, doc, term) ==
    LET field == Get(sc.field)
        idf == Idf(coll, index, field, term)
        c_t_d == RInt(Count(doc[field], term))
        numerator == RMul(c_t_d, RAdd(ROne, sc.k1))
        avg == avg_field_length(coll, field)
    IN  IF idf.exc # "none" THEN idf
        ELSE IF avg.exc # "none" THEN avg
        ELSE IF avg.val = RZero THEN Raise("ZeroDivisionError")
        ELSE LET denominator ==
                     RAdd(c_t_d,
                          RMul(sc.k1,
                               RAdd(RSub(ROne, sc.b),
                                    RDiv(RMul(sc.b, RInt(Len(doc[field]))), avg.val))))
             IN  IF denominator = RZero THEN Raise("ZeroDivisionError")
                 ELSE Ok(NScale(RDiv(numerator, denominator), idf.val))

RECURSIVE BM25Loop(_, _, _, _, _, _)
BM25Loop(sc, coll, index, acc, term, i) ==
    IF i > Len(coll) THEN acc
    ELSE LET doc == coll[i] IN
         IF ~HasField(doc, sc.field) THEN Fail(acc, "KeyError")
         ELSE IF ~Contains(doc[Get(sc.field)], term)
         THEN BM25Loop(sc, coll, index, acc, term, i + 1)
         ELSE LET x == BM25Doc(sc, coll, index, doc, term) IN
              IF x.exc # "none" THEN Fail(acc, x.exc)
              ELSE BM25Loop(sc, coll, index,
                            Acc(AddScore(acc.scores, DocId(i), x.val)), term, i + 1)

ScorerBM25_score_term(sc, coll, index, acc, term, query_freq) ==
    BM25Loop(sc, coll, index, acc, term, 1)

\* sum([doc[field].count(term) for doc in self.collection.values()])
RECURSIVE SumCount(_, _, _)
SumCount(coll, field, term) ==
    IF coll = <<>> THEN 0
    ELSE Count(Head(coll)[field], term) + SumCount(Tail(coll), field, term)

\* sum([...count(term)...]) / self.collection.total_field_length(field)
CollectionProb(coll, field, term) ==
    LET t == total_field_length(coll, field) IN
    IF t.exc # "none" THEN t
    ELSE IF t.val = 0 THEN Raise("ZeroDivisionError")
    ELSE Ok(Rat(SumCount(coll, field, term), t.val))

\* math.log(x) for a rational x
Log(x) == IF x[1] <= 0 THEN Raise("ValueError") ELSE Ok(Ln(x))

\* (1 - lambda_) * p_d + lambda_ * p_c
Smooth(lambda_, p_d, p_c) == RAdd(RMul(RSub(ROne, lambda_), p_d), RMul(lambda_, p_c))

RECURSIVE LMLoop(_, _, _, _, _, _, _)
LMLoop(sc, coll, acc, term, c_t_q, P_t_C, i) ==
    IF i > Len(coll) THEN acc
    ELSE LET doc == coll[i] IN
         IF ~HasField(doc, sc.field) THEN Fail(acc, "KeyError")
         ELSE LET f == doc[Get(sc.field)] IN
              IF ~Contains(f, term)
              THEN LMLoop(sc, coll, acc, term, c_t_q, P_t_C, i + 1)
              ELSE LET x == Log(Smooth(sc.smoothing_param,
                                       Rat(Count(f, term), Len(f)), P_t_C))
                   IN  IF x.exc # "none" THEN Fail(acc, x.exc)
                       ELSE LMLoop(sc, coll,
                                   Acc(AddScore(acc.scores, DocId(i),
                                                NScale(RInt(c_t_q), x.val))),
                                   term, c_t_q, P_t_C, i + 1)

ScorerLM_score_term(sc, coll, index, acc, term, query_freq) ==
    LET P_t_C == CollectionProb(coll, Get(sc.field), term) IN
    IF P_t_C.exc # "none" THEN Fail(acc, P_t_C.exc)
    ELSE LMLoop(sc, coll, acc, term, query_freq, P_t_C.val, 1)

\* ScorerBM25F.score_term, the loop over the fields of one document: the pair
\* (c_t_d, idf) after the fields k.. have been added
RECURSIVE BM25FFields(_, _, _, _, _, _, _)
BM25FFields(sc, coll, index, doc, term, cur, k) ==
    LET fields == Get(sc.fields) IN
    IF k > Len(fields) THEN Ok(cur)
    ELSE LET field == fields[k] IN
         IF k > Len(sc.bi) THEN Raise("IndexError")
         ELSE IF field \notin DOMAIN doc THEN Raise("KeyError")
         ELSE LET avg == avg_field_length(coll, field) IN
              IF avg.exc # "none" THEN avg
              ELSE IF avg.val = RZero THEN Raise("ZeroDivisionError")
              ELSE LET B_i == RAdd(RSub(ROne, sc.bi[k]),
                                   RDiv(RMul(sc.bi[k], RInt(Len(doc[field]))), avg.val))
                   IN  IF k > Len(sc.field_weights) THEN Raise("IndexError")
                       ELSE IF B_i = RZero THEN Raise("ZeroDivisionError")
                       ELSE LET c_t_d == RAdd(cur.c_t_d,
                                              RMul(sc.field_weights[k],
                                                   RDiv(RInt(Count(doc[field], term)), B_i)))
                                idf == IF field = "body"
                                       THEN Idf(coll, index, field, term)
                                       ELSE Ok(cur.idf)
                            IN  IF idf.exc # "none" THEN idf
                                ELSE BM25FFields(sc, coll, index, doc, term,
                                                 [idf |-> idf.val, c_t_d |-> c_t_d], k + 1)

RECURSIVE BM25FLoop(_, _, _, _, _, _)
BM25FLoop(sc, coll, index, acc, term, i) ==
    IF i > Len(coll) THEN acc
    ELSE LET x == BM25FFields(sc, coll, index, coll[i], term,
                              [idf |-> NumZero, c_t_d |-> RZero], 1)
         IN  IF x.exc # "none" THEN Fail(acc, x.exc)
             ELSE IF RAdd(sc.k1, x.val.c_t_d) = RZero THEN Fail(acc, "ZeroDivisionError")
             ELSE BM25FLoop(sc, coll, index,
                            Acc(AddScore(acc.scores, DocId(i),
                                         NScale(RDiv(x.val.c_t_d, RAdd(sc.k1, x.val.c_t_d)),
                                                x.val.idf))),
                            term, i + 1)

ScorerBM25F_score_term(sc, coll, index, acc, term, query_freq) ==
    BM25FLoop(sc, coll, index, acc, term, 1)

\* ScorerMLM.score_term, the loop over the fields of one document: the pair
\* (c_t_d, P_t_C) after the fields k.. have been added
RECURSIVE MLMFields(_, _, _, _, _, _)
MLMFields(sc, coll, doc, term, cur, k) ==
    LET fields == Get(sc.fields) IN
    IF k > Len(fields) THEN Ok(cur)
    ELSE LET field == fields[k] IN
         IF k > Len(sc.field_weights) THEN Raise("IndexError")
         ELSE IF field \notin DOMAIN doc THEN Raise("KeyError")
         ELSE IF Len(doc[field]) = 0 THEN Raise("ZeroDivisionError")
         ELSE LET c_t_d == RAdd(cur.c_t_d,
                                RMul(sc.field_weights[k],
                                     Rat(Count(doc[field], term), Len(doc[field]))))
                  p == CollectionProb(coll, field, term)
              IN  IF p.exc # "none" THEN p
                  ELSE MLMFields(sc, coll, doc, term,
                                 [c_t_d |-> c_t_d,
                                  P_t_C |-> RAdd(cur.P_t_C,
                                                 RMul(sc.field_weights[k], p.val))],
                                 k + 1)

RECURSIVE MLMLoop(_, _, _, _, _)
MLMLoop(sc, coll, acc, term, i) ==
    IF i > Len(coll) THEN acc
    ELSE LET x == MLMFields(sc, coll, coll[i], term,
                            [c_t_d |-> RZero, P_t_C |-> RZero], 1)
         IN  IF x.exc # "none" THEN Fail(acc, x.exc)
             ELSE LET y == Log(Smooth(sc.smoothing_param, x.val.c_t_d, x.val.P_t_C)) IN
                  IF y.exc # "none" THEN Fail(acc, y.exc)
                  ELSE MLMLoop(sc, coll,
                               Acc(AddScore(acc.scores, DocId(i), y.val)), term, i + 1)

ScorerMLM_score_term(sc, coll, index, acc, term, query_freq) ==
    MLMLoop(sc, coll, acc, term, 1)

\* The dispatch of self.score_term on the class of the scorer
score_term(sc, coll, index, acc, term, query_freq) ==
    CASE sc.kind = "SimpleScorer" ->
             SimpleScorer_score_term(sc, coll, index, acc, term, query_freq)
      [] sc.kind = "ScorerBM25" ->
             ScorerBM25_score_term(sc, coll, index, acc, term, query_freq)
      [] sc.kind = "ScorerLM" ->
             ScorerLM_score_term(sc, coll, index, acc, term, query_freq)
      [] sc.kind = "ScorerBM25F" ->
             ScorerBM25F_score_term(sc, coll, index, acc, term, query_freq)
      [] sc.kind = "ScorerMLM" ->
             ScorerMLM_score_term(sc, coll, index, acc, term, query_freq)

\* The slip of creating the accumulator only once
ResetScores_Once(scores) == IF scores = None THEN Some(<<>>) ELSE scores

\* self.scores = defaultdict(float)
ResetScores(scores) == Some(<<>>)

\* for term, query_freq in query_term_freqs.items(): self.score_term(...)
RECURSIVE TermLoop(_, _, _, _, _, _)
TermLoop(sc, coll, index, acc, items, j) ==
    IF j > Len(items) \/ acc.exc # "none" THEN acc
    ELSE TermLoop(sc, coll, index,
                  score_term(sc, coll, index, acc, items[j][1], items[j][2]),
                  items, j + 1)

\* The slip of scoring into the accumulator the last call left
score_collection_NoReset(sc, coll, index, scores, query_terms) ==
    TermLoop(sc, coll, index, Acc(IF scores = None THEN <<>> ELSE Get(scores)),
             Counter(query_terms), 1)

\* Scorer.score_collection: the accumulator state when the call ends
score_collection(sc, coll, index, scores, query_terms) ==
    TermLoop(sc, coll, index, Acc(Get(ResetScores(scores))), Counter(query_terms), 1)

\* What the caller of score_collection gets: self.scores, or the exception
Outcome(acc) == IF acc.exc = "none" THEN Ok(acc.scores) ELSE Raise(acc.exc)

\* ------------------------------------------------------------------------
\* The inputs
\* ------------------------------------------------------------------------
SeqsUpTo(S, k) == UNION {[1..m -> S] : m \in 0..k}

\* A document has a body and may have a title, each a sequence of terms
DocsOver(k) ==
    {[f \in {"body"} |-> b] : b \in SeqsUpTo(Terms, k)}
        \cup {[f \in Fields |-> IF f = "title" THEN t ELSE b] :
                  t \in SeqsUpTo(Terms, k), b \in SeqsUpTo(Terms, k)}

DocTokens(doc) ==
    (IF "title" \in DOMAIN doc THEN Len(doc["title"]) ELSE 0)
    + (IF "body" \in DOMAIN doc THEN Len(doc["body"]) ELSE 0)

RECURSIVE Tokens(_)
Tokens(coll) == IF coll = <<>> THEN 0 ELSE DocTokens(Head(coll)) + Tokens(Tail(coll))

Collections ==
    {c \in SeqsUpTo({d \in DocsOver(MaxTokens) : DocTokens(d) <= MaxTokens}, Len(DocIds)) :
        Tokens(c) <= MaxTokens}

Queries == SeqsUpTo(Terms, MaxQuery)

\* The index the indexing collaborator builds from a collection: for every field
\* and term occurring in it, the identifiers of the documents with the term in
\* that field
Postings(coll, f, t) ==
    {DocId(i) : i \in {j \in 1..Len(coll) : f \in DOMAIN coll[j] /\ Contains(coll[j][f], t)}}

BuildIndex(coll) ==
    [f \in {g \in Fields : \E i \in 1..Len(coll) : g \in DOMAIN coll[i]} |->
        [t \in {u \in Terms : Postings(coll, f, u) # {}} |-> Postings(coll, f, t)]]

\* An index out of step with the collection: one posting set missing or empty
WithoutPosting(ix, f, t) ==
    [g \in DOMAIN ix |->
        IF g = f THEN [u \in DOMAIN ix[g] \ {t} |-> ix[g][u]] ELSE ix[g]]

WithEmptyPosting(ix, f, t) == [ix EXCEPT ![f] = [@ EXCEPT ![t] = {}]]

DesyncedIndexes(coll) ==
    LET ix == BuildIndex(coll) IN
    UNION {{WithoutPosting(ix, f, t), WithEmptyPosting(ix, f, t)} :
           <<f, t>> \in {ft \in Fields \X Terms :
                             ft[1] \in DOMAIN ix /\ ft[2] \in DOMAIN ix[ft[1]]}}

\* ------------------------------------------------------------------------
\* The state
\* ------------------------------------------------------------------------
VARIABLES
    collection,   \* the DocumentCollection
    index,        \* the inverted index
    scorer,       \* the Scorer object: its class and attributes (none before __init__)
    scores,       \* self.scores
    call,         \* the last call made and its arguments
    ret,          \* its outcome: the value returned or the exception raised
    lst, n,       \* the arguments of get_unique_elements
    res           \* its result

vars == <<collection, index, scorer, scores, call, ret, lst, n, res>>

NoScorer == [kind |-> "none"]
NoCall == [op |-> "none"]

\* ------------------------------------------------------------------------
\* The constructors
\* ------------------------------------------------------------------------
\* SimpleScorer(collection, index, field, fields): Scorer.__init__ itself
SimpleScorer_init(field, fields) ==
    LET base == Scorer_init(field, fields) IN
    IF base.exc # "none" THEN base
    ELSE Ok([field |-> field, fields |-> fields, kind |-> "SimpleScorer"])

ScorerBM25_init(field, b, k1) ==
    LET base == Scorer_init(field, None) IN
    IF base.exc # "none" THEN base
    ELSE Ok([field |-> field, fields |-> None, k1 |-> k1, b |-> b,
             kind |-> "ScorerBM25"])

ScorerLM_init(field, smoothing_param) ==
    LET base == Scorer_init(field, None) IN
    IF base.exc # "none" THEN base
    ELSE Ok([field |-> field, fields |-> None,
             smoothing_param |-> smoothing_param, kind |-> "ScorerLM"])

ScorerBM25F_init(fields, field_weights, bi, k1) ==
    LET base == Scorer_init(None, fields) IN
    IF base.exc # "none" THEN base
    ELSE Ok([field |-> None, fields |-> fields, k1 |-> k1, bi |-> bi,
             field_weights |-> field_weights, kind |-> "ScorerBM25F"])

ScorerMLM_init(fields, field_weights, smoothing_param) ==
    LET base == Scorer_init(None, fields) IN
    IF base.exc # "none" THEN base
    ELSE Ok([field |-> None, fields |-> fields, smoothing_param |-> smoothing_param,
             field_weights |-> field_weights, kind |-> "ScorerMLM"])

\* The arguments the constructors are called with
FieldArgs == {None, Some(""), Some("title"), Some("body")}
SimpleArgs == {<<f, None>> : f \in FieldArgs} \cup {<<None, Some(<<>>)>>}
MultiArgs == {<<None, DefaultFieldWeights>>,
              <<Some(<<>>), DefaultFieldWeights>>,
              <<Some(DefaultFields), DefaultFieldWeights>>,
              <<Some(<<"body">>), <<ROne>>>>,
              <<Some(<<"title">>), <<ROne>>>>}

\* ------------------------------------------------------------------------
\* get_unique_elements (A0)
\* ------------------------------------------------------------------------
\* the loop of get_unique_elements from position i, with the counts d and the
\* result res so far
RECURSIVE UniqueLoop(_, _, _, _, _)
UniqueLoop(l, k, i, d, r) ==
    IF i > Len(l) THEN r
    ELSE LET e == l[i]
             d2 == IF e \notin DOMAIN d
                   THEN [x \in DOMAIN d \cup {e} |-> IF x = e THEN 1 ELSE d[x]]
                   ELSE [d EXCEPT ![e] = @ + 1]
         IN  UniqueLoop(l, k, i + 1, d2, IF d2[e] = k THEN Append(r, e) ELSE r)

get_unique_elements(l, k) == UniqueLoop(l, k, 1, <<>>, <<>>)

\* ------------------------------------------------------------------------
\* The actions
\* ------------------------------------------------------------------------
\* One constructor call: the scorer exists afterwards unless __init__ raised
Constructed(kind, args, made) ==
    /\ scorer = NoScorer
    /\ call' = [kind |-> kind, op |-> "__init__", args |-> args]
    /\ ret' = IF made.exc = "none" THEN Ok(<<>>) ELSE made
    /\ scorer' = IF made.exc = "none" THEN made.val ELSE scorer
    /\ scores' = None
    /\ UNCHANGED <<collection, index, lst, n, res>>

NewSimpleScorer ==
    \E a \in SimpleArgs :
        Constructed("SimpleScorer", a, SimpleScorer_init(a[1], a[2]))

NewScorerBM25 ==
    \E f \in FieldArgs :
        Constructed("ScorerBM25", <<f>>, ScorerBM25_init(f, DefaultB, DefaultK1))

NewScorerLM ==
    \E f \in FieldArgs :
        Constructed("ScorerLM", <<f>>, ScorerLM_init(f, DefaultSmoothing))

NewScorerBM25F ==
    \E a \in MultiArgs :
        Constructed("ScorerBM25F", a, ScorerBM25F_init(a[1], a[2], DefaultBi, DefaultK1))

NewScorerMLM ==
    \E a \in MultiArgs :
        Constructed("ScorerMLM", a, ScorerMLM_init(a[1], a[2], DefaultSmoothing))

\* scorer.score_collection(query_terms)
ScoreCollection ==
    \E q \in Queries :
        /\ scorer # NoScorer
        /\ \E out \in {score_collection(scorer, collection, index, scores, q)} :
               /\ scores' = Some(out.scores)
               /\ ret' = Outcome(out)
        /\ call' = [query_terms |-> q, op |-> "score_collection",
                    dirty |-> scores # None /\ scores # Some(<<>>)]
        /\ UNCHANGED <<collection, index, scorer, lst, n, res>>

\* collection.total_field_length(field), avg_field_length, get_field_documents
Called(op, field, out) ==
    /\ call' = [field |-> field, op |-> op]
    /\ ret' = out
    /\ UNCHANGED <<collection, index, scorer, scores, lst, n, res>>

TotalFieldLength ==
    \E f \in Fields : Called("total_field_length", f, total_field_length(collection, f))

AvgFieldLength ==
    \E f \in Fields : Called("avg_field_length", f, avg_field_length(collection, f))

GetFieldDocuments ==
    \E f \in Fields : Called("get_field_documents", f, get_field_documents(collection, f))

\* get_unique_elements(lst, n)
GetUniqueElements ==
    /\ call = NoCall
    /\ call' = [op |-> "get_unique_elements"]
    /\ res' = get_unique_elements(lst, n)
    /\ ret' = Ok(res')
    /\ UNCHANGED <<collection, index, scorer, scores, lst, n>>

\* ------------------------------------------------------------------------
\* The specifications
\* ------------------------------------------------------------------------
Idle ==
    /\ scorer = NoScorer
    /\ scores = None
    /\ call = NoCall
    /\ ret = Ok(<<>>)

\* A scorer over a collection and the index built from it
Init ==
    /\ collection \in Collections
    /\ index = BuildIndex(collection)
    /\ Idle
    /\ lst = <<>> /\ n = 1 /\ res = <<>>

Next ==
    \/ NewSimpleScorer
    \/ NewScorerBM25
    \/ NewScorerLM
    \/ NewScorerBM25F
    \/ NewScorerMLM
    \/ ScoreCollection

Spec == Init /\ [][Next]_vars

\* A scorer over a collection and an index out of step with it
InitDesynced ==
    /\ collection \in Collections
    /\ index \in DesyncedIndexes(collection)
    /\ Idle
    /\ lst = <<>> /\ n = 1 /\ res = <<>>

SpecDesynced == InitDesynced /\ [][Next]_vars

\* The statistics of a DocumentCollection
NextCollection ==
    \/ TotalFieldLength
    \/ AvgFieldLength
    \/ GetFieldDocuments

SpecCollection == Init /\ [][NextCollection]_vars

\* get_unique_elements on every list and threshold within the bounds
InitUnique ==
    /\ collection = <<>> /\ index = <<>>
    /\ Idle
    /\ lst \in SeqsUpTo(Elems, MaxLst)
    /\ n \in 1..MaxN
    /\ res = <<>>

NextUnique == GetUniqueElements

SpecUnique == InitUnique /\ [][NextUnique]_vars

\* ------------------------------------------------------------------------
\* Properties
\* ------------------------------------------------------------------------
Scored == call.op = "score_collection"

AllIds == {DocId(i) : i \in 1..Len(collection)}

\* the score a mapping gives a document: absent counts as 0
ScoreOf(m, d) == IF d \in DOMAIN m THEN m[d] ELSE NumZero

\* what score_collection(q) gives on a freshly constructed scorer of the same
\* configuration
FirstCall(q) == Outcome(score_collection(scorer, collection, index, None, q))

RECURSIVE SumOver(_, _)
\* the sum of f over the set S
SumOver(S, f) ==
    IF S = {} THEN 0
    ELSE LET x == CHOOSE y \in S : TRUE IN f[x] + SumOver(S \ {x}, f)

\* sum over the distinct terms t of q of (occurrences of t in s) x (occurrences
\* of t in q)
TermCountScore(s, q) ==
    SumOver({q[j] : j \in 1..Len(q)}, [t \in Terms |-> Count(s, t) * Count(q, t)])

\* C1: a term-count scorer bound to a field that every document has returns
\* exactly the documents with a query term in that field, each with the sum over
\* the distinct query terms of (occurrences in the field) x (occurrences in the
\* query).
C1_TermCountScores ==
    (/\ Scored
     /\ scorer.kind = "SimpleScorer"
     /\ scorer.field # None
     /\ \A i \in 1..Len(collection) : Get(scorer.field) \in DOMAIN collection[i])
    => LET f == Get(scorer.field)
           q == call.query_terms
           hits == {i \in 1..Len(collection) :
                       \E j \in 1..Len(q) : Contains(collection[i][f], q[j])}
       IN  /\ ret.exc = "none"
           /\ DOMAIN ret.val = {DocId(i) : i \in hits}
           /\ \A i \in hits :
                  ret.val[DocId(i)] = Num(RInt(TermCountScore(collection[i][f], q)))

\* C1 witness: the query [a, a] on a collection whose first document has the body
\* [a, a] and whose second has no a: the result is exactly {d1: 4}.
C1_Witness ==
    /\ Scored
    /\ scorer.kind = "SimpleScorer"
    /\ scorer.field = Some("body")
    /\ call.query_terms = <<"a", "a">>
    /\ Len(collection) = 2
    /\ collection[1]["body"] = <<"a", "a">>
    /\ ret = Ok([d \in {"d1"} |-> Num(RInt(4))])

\* C3: whatever calls came before, score_collection(q) ends as the first call on
\* a freshly constructed scorer of the same configuration does: the same mapping
\* (or the same exception), and nothing of an earlier call in the accumulator.
C3_FreshAccumulator ==
    Scored =>
        /\ ret = FirstCall(call.query_terms)
        /\ scores = Some(score_collection(scorer, collection, index, None,
                                          call.query_terms).scores)

\* C3 witness: a call made while the accumulator held the scores of an earlier
\* call, returning a non-empty mapping.
C3_Witness ==
    /\ Scored
    /\ call.dirty
    /\ ret.exc = "none"
    /\ ret.val # <<>>

\* C4: for every ranking model, collection and index, the empty query returns the
\* empty mapping and raises nothing.
C4_EmptyQuery ==
    (Scored /\ call.query_terms = <<>>) => ret = Ok(<<>>)

\* C4 witness: the empty query on a mixture-of-language-models scorer whose
\* accumulator held the scores of an earlier call.
C4_Witness ==
    /\ Scored
    /\ scorer.kind = "ScorerMLM"
    /\ call.query_terms = <<>>
    /\ call.dirty
    /\ ret = Ok(<<>>)

\* C8: for two distinct terms t1, t2 the call on [t1, t2] fails exactly when the
\* call on [t1] or the call on [t2] fails; when none fails every document's score
\* for [t1, t2] is the sum of its scores for [t1] and for [t2] (absent counts as
\* 0); and [t2, t1] gives the same outcome as [t1, t2].
C8_Additive ==
    (Scored /\ Len(call.query_terms) = 2 /\ call.query_terms[1] # call.query_terms[2])
    => LET t1 == call.query_terms[1]
           t2 == call.query_terms[2]
           r1 == FirstCall(<<t1>>)
           r2 == FirstCall(<<t2>>)
           r21 == FirstCall(<<t2, t1>>)
       IN  /\ (ret.exc # "none") <=> (r1.exc # "none" \/ r2.exc # "none")
           /\ (r21.exc # "none") <=> (ret.exc # "none")
           /\ ret.exc = "none" =>
                  /\ r21.val = ret.val
                  /\ \A d \in AllIds :
                         ScoreOf(ret.val, d) = NAdd(ScoreOf(r1.val, d), ScoreOf(r2.val, d))

\* C8 witness: a language-model scorer has scored [a, b] against a first document
\* whose body holds both terms.
C8_Witness ==
    /\ Scored
    /\ scorer.kind = "ScorerLM"
    /\ scorer.field = Some("body")
    /\ call.query_terms = <<"a", "b">>
    /\ Len(collection) = 2
    /\ collection[1]["body"] = <<"a", "b">>
    /\ ret.exc = "none"
    /\ "d1" \in DOMAIN ret.val

\* the arguments of the last constructor call
CtorField ==
    IF call.kind \in {"SimpleScorer", "ScorerBM25", "ScorerLM"} THEN call.args[1] ELSE None

CtorFields ==
    IF call.kind = "SimpleScorer" THEN call.args[2]
    ELSE IF call.kind \in {"ScorerBM25F", "ScorerMLM"} THEN call.args[1]
    ELSE None

CtorFailed == ret.exc = "ValueError" /\ scorer = NoScorer
CtorSucceeded == ret.exc = "none" /\ scorer # NoScorer /\ scorer.kind = call.kind

\* C5 as stated: a constructor given neither a field nor a field list raises the
\* configuration error and leaves no scorer to call; given a single field or a
\* non-empty field list it succeeds.
C5_AsStated ==
    call.op = "__init__" =>
        /\ (CtorField = None /\ CtorFields = None) => CtorFailed
        /\ (CtorField # None \/ (CtorFields # None /\ Get(CtorFields) # <<>>))
               => CtorSucceeded

\* C5 amended: a constructor given neither a field nor a field list raises the
\* configuration error and leaves no scorer to call; given a non-empty field name
\* or a non-empty field list it succeeds.
C5_Construction ==
    call.op = "__init__" =>
        /\ (CtorField = None /\ CtorFields = None) => CtorFailed
        /\ ((CtorField # None /\ Get(CtorField) # "")
               \/ (CtorFields # None /\ Get(CtorFields) # <<>>))
               => CtorSucceeded

\* C5 witness: a constructor call with neither argument has raised ValueError.
C5_Witness ==
    /\ call.op = "__init__"
    /\ CtorField = None
    /\ CtorFields = None
    /\ CtorFailed

\* the length of the field in a document, 0 when the document lacks the field
LenOrZero(doc, field) == IF field \in DOMAIN doc THEN Len(doc[field]) ELSE 0

\* C6: total_field_length(field) returns the sum over all documents of the
\* length of the field, a document without the field counting 0, and fails for
\* no collection.
C6_TotalFieldLength ==
    call.op = "total_field_length" =>
        ret = Ok(SumOver(1..Len(collection),
                         [i \in 1..Len(collection) |->
                             LenOrZero(collection[i], call.field)]))

\* the index has no posting set, or an empty one, for a query term that occurs
\* in the scorer's field of some document
PostingLost(field, q) ==
    \E j \in 1..Len(q) :
        /\ \E i \in 1..Len(collection) :
               field \in DOMAIN collection[i] /\ Contains(collection[i][field], q[j])
        /\ \/ field \notin DOMAIN index
           \/ q[j] \notin DOMAIN index[field]
           \/ index[field][q[j]] = {}

\* C7: when the index has no posting set, or an empty one, for a query term that
\* occurs in a document's field, BM25 scoring returns no mapping and the error it
\* raises is not an arithmetic one.
C7_IndexInconsistency ==
    (/\ Scored
     /\ scorer.kind = "ScorerBM25"
     /\ PostingLost(Get(scorer.field), call.query_terms))
    => ret.exc \notin {"none", "ZeroDivisionError", "ValueError"}

\* the elements of l in the order of their first appearance
RECURSIVE FirstAppearances(_)
FirstAppearances(l) ==
    IF l = <<>> THEN <<>>
    ELSE LET r == FirstAppearances(SubSeq(l, 1, Len(l) - 1)) IN
         IF \E i \in 1..Len(r) : r[i] = l[Len(l)] THEN r ELSE Append(r, l[Len(l)])

\* C9: get_unique_elements(lst, n) returns the distinct elements occurring at
\* least n times in lst, each once, in the order of their first appearance.
C9_FirstAppearanceOrder ==
    call.op = "get_unique_elements" =>
        LET AtLeastN(e) == Count(lst, e) >= n
        IN  res = SelectSeq(FirstAppearances(lst), AtLeastN)

\* the single-field scorer a one-field, weight-1 multi-field scorer is to agree
\* with
SingleFieldOf(sc) ==
    IF sc.kind = "ScorerBM25F"
    THEN ScorerBM25_init(Some(Get(sc.fields)[1]), sc.bi[1], sc.k1).val
    ELSE ScorerLM_init(Some(Get(sc.fields)[1]), sc.smoothing_param).val

\* C2: with one configured field of weight 1, BM25F and MLM give every document
\* the score the single-field BM25 and LM scorers give it for the same field and
\* parameters (absent counts as 0); stated for the collections in which every
\* document has the field, non-empty, and every query term occurs in the field of
\* some document, where none of the four scorers fails.
C2_SingleFieldDegenerate ==
    (/\ Scored
     /\ scorer.kind \in {"ScorerBM25F", "ScorerMLM"}
     /\ Len(Get(scorer.fields)) = 1
     /\ scorer.field_weights = <<ROne>>
     /\ Len(collection) > 0
     /\ \A i \in 1..Len(collection) :
            /\ Get(scorer.fields)[1] \in DOMAIN collection[i]
            /\ collection[i][Get(scorer.fields)[1]] # <<>>
     /\ \A j \in 1..Len(call.query_terms) : \E i \in 1..Len(collection) :
            Contains(collection[i][Get(scorer.fields)[1]], call.query_terms[j]))
    => LET single == Outcome(score_collection(SingleFieldOf(scorer), collection, index,
                                              None, call.query_terms))
       IN  /\ ret.exc = "none"
           /\ single.exc = "none"
           /\ \A d \in AllIds : ScoreOf(ret.val, d) = ScoreOf(single.val, d)

\* C10: BM25F and MLM score every document whichever configured fields it has:
\* when every document has a non-empty body holding every query term and some
\* document has no title, scoring over [title, body] completes with a score for
\* every document.
C10_MissingFieldScored ==
    (/\ Scored
     /\ scorer.kind \in {"ScorerBM25F", "ScorerMLM"}
     /\ scorer.fields = Some(DefaultFields)
     /\ call.query_terms # <<>>
     /\ \E i \in 1..Len(collection) : "title" \notin DOMAIN collection[i]
     /\ \A i \in 1..Len(collection) : \A j \in 1..Len(call.query_terms) :
            Contains(collection[i]["body"], call.query_terms[j]))
    => /\ ret.exc = "none"
       /\ DOMAIN ret.val = AllIds

\* the score of document i for one query term when the idf is that of the term
\* in the body field: (c_t_d / (k1 + c_t_d)) * ln(|collection| / |index[body][term]|),
\* with c_t_d the weighted, length-normalised count over the configured fields
BodyIdfTermScore(i, term) ==
    LET x == BM25FFields(scorer, collection, index, collection[i], term,
                         [idf |-> NumZero, c_t_d |-> RZero], 1).val
        body_idf == Idf(collection, index, "body", term).val
    IN  NScale(RDiv(x.c_t_d, RAdd(scorer.k1, x.c_t_d)), body_idf)

RECURSIVE BodyIdfScore(_, _, _)
\* the sum of BodyIdfTermScore over the distinct query terms ts[j..]
BodyIdfScore(i, ts, j) ==
    IF j > Len(ts) THEN NumZero
    ELSE NAdd(BodyIdfTermScore(i, ts[j]), BodyIdfScore(i, ts, j + 1))

\* C11: for every configured field list, with or without "body", BM25F scores a
\* document with the sum over the query terms of c_t_d / (k1 + c_t_d) times the
\* idf of the term in the body field, ln(|collection| / |docs with the term in
\* body|); stated for the collections in which every document has every
\* configured field, no configured field is empty throughout, and every query
\* term occurs in the body of some document, where nothing fails.
C11_BodyIdf ==
    (/\ Scored
     /\ scorer.kind = "ScorerBM25F"
     /\ call.query_terms # <<>>
     /\ Len(collection) > 0
     /\ \A k \in 1..Len(Get(scorer.fields)) :
            /\ \A i \in 1..Len(collection) :
                   Get(scorer.fields)[k] \in DOMAIN collection[i]
            /\ \E i \in 1..Len(collection) :
                   collection[i][Get(scorer.fields)[k]] # <<>>
     /\ \A j \in 1..Len(call.query_terms) : \E i \in 1..Len(collection) :
            Contains(collection[i]["body"], call.query_terms[j]))
    => /\ ret.exc = "none"
       /\ \A i \in 1..Len(collection) :
              ScoreOf(ret.val, DocId(i))
                  = BodyIdfScore(i, Distinct(call.query_terms), 1)

====
